---- MODULE Spec2Model ----
(***************************************************************************)
(* Model of core-sdk-go:                                                   *)
(*   client/grpc_client.go  the process-wide gRPC connection guarded by a  *)
(*                          sync.Once (NewGRPCClient, GenConn, Token)      *)
(*   types/config.go        the options-based ClientConfig builder         *)
(*                          (NewClientConfig, checkAndSetDefault, options) *)
(***************************************************************************)
EXTENDS Integers, Sequences, FiniteSets, TLC

(***************************************************************************)
(* Bounds                                                                  *)
(***************************************************************************)
\* number of goroutines calling NewGRPCClient
NumCallers == 2
\* NewGRPCClient calls issued in the process
MaxCalls == 3
\* longest option list handed to NewClientConfig
MaxOpts == 2
\* longest option list of a build that is repeated or re-checked
MaxOptsRepeat == 1

VARIABLES
    \* ---- client/grpc_client.go ----
    clientConnSingleton, \* var clientConnSingleton *grpc.ClientConn
    once,                \* var once sync.Once: [done, m]
    pc,                  \* position of each goroutine inside NewGRPCClient
    args,                \* (url, info) of each goroutine's current call
    clientConn,          \* local clientConn of the goroutine running the once body
    calls,               \* number of NewGRPCClient calls issued so far
    callNo,              \* which call (1, 2, ...) each goroutine is in, 0 when in none
    late,                \* current call was issued after a dial had failed
    got,                 \* result of each goroutine's last GenConn
    dials,               \* history: every grpc.Dial executed, in order
    panics,              \* history: every panic delivered to a caller
    ignored,             \* history: which arguments ("url", "info") of a call that
                         \* returned differed from those of the call that dialed
    \* ---- types/config.go ----
    uri, grpcAddr, chainID, options, \* arguments of NewClientConfig
    failAt,              \* environment: which store.NewLevelDB call fails (0: none)
    PrefixCfg,           \* var PrefixCfg: the record the package-level pointer
                         \* designates, read as *PrefixCfg
    phase,               \* "input", "built", "rebuilt", "rechecked"
    result,              \* what NewClientConfig returned
    builtWith,           \* history: *PrefixCfg when NewClientConfig was called
    rebuilt,             \* what a second NewClientConfig call on the same
                         \* arguments returned
    rechecked            \* outcome of checkAndSetDefault on the returned config

clientVars == <<clientConnSingleton, once, pc, args, clientConn, calls, callNo, late, got,
                dials, panics, ignored>>
configVars == <<uri, grpcAddr, chainID, options, failAt, PrefixCfg, phase, result,
                builtWith, rebuilt, rechecked>>
vars == <<clientVars, configVars>>

(***************************************************************************)
(* client/grpc_client.go                                                   *)
(***************************************************************************)
Callers == 1..NumCallers

URLs == {"grpc-a:9090", "grpc-b:9090"}

\* types.BSNProjectInfo values handed to NewGRPCClient
Infos ==
    { [ProjectId |-> "pid1", ProjectKey |-> "key1", ChainAccountAddress |-> "addr1"],
      [ProjectId |-> "pid2", ProjectKey |-> "key2", ChainAccountAddress |-> "addr2"] }

NoInfo == [ProjectId |-> "", ProjectKey |-> "", ChainAccountAddress |-> ""]

projectIdHeader == "projectId"
projectKeyHeader == "projectKey"
chainAccountAddressHeader == "chainAccountAddress"

\* the zero Token
NoToken == [projectId |-> "", projectKey |-> "", chainAccountAddr |-> ""]

\* token := Token{projectId: info.ProjectId, ...}
MutNewTokenSwapped(info) ==
    [projectId        |-> info.ProjectKey,
     projectKey       |-> info.ProjectId,
     chainAccountAddr |-> info.ChainAccountAddress]

NewToken(info) ==
    [projectId        |-> info.ProjectId,
     projectKey       |-> info.ProjectKey,
     chainAccountAddr |-> info.ChainAccountAddress]

\* func (t *Token) GetRequestMetadata
GetRequestMetadata(t) ==
    [h \in {projectIdHeader, projectKeyHeader, chainAccountAddressHeader} |->
        IF h = projectIdHeader THEN t.projectId
        ELSE IF h = projectKeyHeader THEN t.projectKey
        ELSE t.chainAccountAddr]

\* func (t *Token) RequireTransportSecurity
RequireTransportSecurity(t) == TRUE

\* a nil *grpc.ClientConn; a live one carries the number of the dial that made
\* it, its target and the per-RPC credentials given in the dial options
NilConn == [id |-> 0, target |-> "", creds |-> NoToken]

NoArgs == [url |-> "", info |-> NoInfo]

\* GenConn's second result is always nil
NoErr == "nil"

NotCalled == [called |-> FALSE, conn |-> NilConn, err |-> NoErr]

DialFailed == \E i \in 1..Len(dials) : ~dials[i].ok

ClientInit ==
    /\ clientConnSingleton = NilConn
    /\ once = [done |-> FALSE, m |-> 0]
    /\ pc = [p \in Callers |-> "idle"]
    /\ args = [p \in Callers |-> NoArgs]
    /\ clientConn = [p \in Callers |-> NilConn]
    /\ calls = 0
    /\ callNo = [p \in Callers |-> 0]
    /\ late = [p \in Callers |-> FALSE]
    /\ got = [p \in Callers |-> NotCalled]
    /\ dials = <<>>
    /\ panics = <<>>
    /\ ignored = {}

\* a goroutine enters NewGRPCClient(url, info); one whose earlier call
\* panicked has recovered and calls again
Call(p) ==
    /\ pc[p] \in {"idle", "returned", "panicked"}
    /\ calls < MaxCalls
    /\ \E url \in URLs, info \in Infos :
          args' = [args EXCEPT ![p] = [url |-> url, info |-> info]]
    /\ calls' = calls + 1
    /\ callNo' = [callNo EXCEPT ![p] = calls + 1]
    /\ late' = [late EXCEPT ![p] = DialFailed]
    /\ pc' = [pc EXCEPT ![p] = "Do"]
    /\ UNCHANGED <<clientConnSingleton, once, clientConn, got, dials, panics,
                   ignored, configVars>>

\* which of a call's arguments differ from those of the dial d
Differing(d, a) ==
    {k \in {"url", "info"} : \/ k = "url" /\ d.url # a.url
                             \/ k = "info" /\ d.info # a.info}

\* return &grpcClient{}: the call is over and its arguments are gone
Returned(p) ==
    /\ pc' = [pc EXCEPT ![p] = "returned"]
    /\ args' = [args EXCEPT ![p] = NoArgs]
    /\ callNo' = [callNo EXCEPT ![p] = 0]
    /\ ignored' = IF dials = <<>> THEN ignored
                  ELSE ignored \cup Differing(dials[1], args[p])

\* a caller that finds the mutex taken does not wait for it and returns
MutDoTryLock(p) ==
    /\ pc[p] = "Do"
    /\ IF once.done \/ once.m # 0
         THEN Returned(p)
         ELSE /\ pc' = [pc EXCEPT ![p] = "doSlow"]
              /\ UNCHANGED <<args, callNo, ignored>>
    /\ UNCHANGED <<clientConnSingleton, once, clientConn, calls, late, got,
                   dials, panics, configVars>>

\* once.Do: if o.done.Load() == 0 { o.doSlow(f) }
Do(p) ==
    /\ pc[p] = "Do"
    /\ IF once.done
         THEN Returned(p)
         ELSE /\ pc' = [pc EXCEPT ![p] = "doSlow"]
              /\ UNCHANGED <<args, callNo, ignored>>
    /\ UNCHANGED <<clientConnSingleton, once, clientConn, calls, late, got,
                   dials, panics, configVars>>

\* a caller whose url is not the dialed one runs the body again
MutDoSlowRedial(p) ==
    /\ pc[p] = "doSlow"
    /\ once.m = 0
    /\ IF once.done /\ dials[1].url = args[p].url
         THEN /\ Returned(p)
              /\ UNCHANGED once
         ELSE /\ pc' = [pc EXCEPT ![p] = "dial"]
              /\ once' = [once EXCEPT !.m = p]
              /\ UNCHANGED <<args, callNo, ignored>>
    /\ UNCHANGED <<clientConnSingleton, clientConn, calls, late, got,
                   dials, panics, configVars>>

\* doSlow entered without looking at o.done again under the lock
MutDoSlowNoRecheck(p) ==
    /\ pc[p] = "doSlow"
    /\ once.m = 0
    /\ once' = [once EXCEPT !.m = p]
    /\ pc' = [pc EXCEPT ![p] = "dial"]
    /\ UNCHANGED <<clientConnSingleton, args, clientConn, calls, callNo, late, got,
                   dials, panics, ignored, configVars>>

\* doSlow: o.m.Lock(); if o.done.Load() == 0 { defer o.done.Store(1); f() }
\* with o.m.Unlock() deferred
DoSlow(p) ==
    /\ pc[p] = "doSlow"
    /\ once.m = 0
    /\ IF once.done
         THEN /\ Returned(p)
              /\ UNCHANGED once
         ELSE /\ pc' = [pc EXCEPT ![p] = "dial"]
              /\ once' = [once EXCEPT !.m = p]
              /\ UNCHANGED <<args, callNo, ignored>>
    /\ UNCHANGED <<clientConnSingleton, clientConn, calls, late, got,
                   dials, panics, configVars>>

\* the once body up to grpc.Dial returning without error
DialOK(p) ==
    /\ pc[p] = "dial"
    /\ dials' = Append(dials, [by |-> p, call |-> callNo[p], url |-> args[p].url,
                               info |-> args[p].info, ok |-> TRUE])
    /\ clientConn' = [clientConn EXCEPT ![p] =
                         [id     |-> Len(dials) + 1,
                          target |-> args[p].url,
                          creds  |-> NewToken(args[p].info)]]
    /\ pc' = [pc EXCEPT ![p] = "assign"]
    /\ UNCHANGED <<clientConnSingleton, once, args, calls, callNo, late, got,
                   panics, ignored, configVars>>

\* the panic unwinds without the deferred o.m.Unlock()
MutDialErrKeepsLock(p) ==
    /\ pc[p] = "dial"
    /\ dials' = Append(dials, [by |-> p, call |-> callNo[p], url |-> args[p].url,
                               info |-> args[p].info, ok |-> FALSE])
    /\ once' = [done |-> TRUE, m |-> p]
    /\ panics' = Append(panics, [to |-> p, call |-> callNo[p]])
    /\ pc' = [pc EXCEPT ![p] = "panicked"]
    /\ args' = [args EXCEPT ![p] = NoArgs]
    /\ callNo' = [callNo EXCEPT ![p] = 0]
    /\ UNCHANGED <<clientConnSingleton, clientConn, calls, late, got, ignored,
                   configVars>>

\* the dial error logged and not raised: the call returns a client
MutDialErrSwallowed(p) ==
    /\ pc[p] = "dial"
    /\ dials' = Append(dials, [by |-> p, call |-> callNo[p], url |-> args[p].url,
                               info |-> args[p].info, ok |-> FALSE])
    /\ once' = [done |-> TRUE, m |-> 0]
    /\ Returned(p)
    /\ UNCHANGED <<clientConnSingleton, clientConn, calls, late, got, panics,
                   configVars>>

\* grpc.Dial returns an error: log.Error, panic(err); the deferred
\* o.done.Store(1) and o.m.Unlock() run while the panic unwinds
DialErr(p) ==
    /\ pc[p] = "dial"
    /\ dials' = Append(dials, [by |-> p, call |-> callNo[p], url |-> args[p].url,
                               info |-> args[p].info, ok |-> FALSE])
    /\ once' = [done |-> TRUE, m |-> 0]
    /\ panics' = Append(panics, [to |-> p, call |-> callNo[p]])
    /\ pc' = [pc EXCEPT ![p] = "panicked"]
    /\ args' = [args EXCEPT ![p] = NoArgs]
    /\ callNo' = [callNo EXCEPT ![p] = 0]
    /\ UNCHANGED <<clientConnSingleton, clientConn, calls, late, got, ignored,
                   configVars>>

\* clientConnSingleton = clientConn
Assign(p) ==
    /\ pc[p] = "assign"
    /\ clientConnSingleton' = clientConn[p]
    /\ clientConn' = [clientConn EXCEPT ![p] = NilConn]
    /\ pc' = [pc EXCEPT ![p] = "leave"]
    /\ UNCHANGED <<once, args, calls, callNo, late, got, dials, panics,
                   ignored, configVars>>

\* the once body returns: the deferred o.done.Store(1) and o.m.Unlock(),
\* then NewGRPCClient returns
Leave(p) ==
    /\ pc[p] = "leave"
    /\ once' = [done |-> TRUE, m |-> 0]
    /\ Returned(p)
    /\ UNCHANGED <<clientConnSingleton, clientConn, calls, late, got,
                   dials, panics, configVars>>

\* func (g grpcClient) GenConn: return clientConnSingleton, nil
GenConn(p) ==
    /\ pc[p] = "returned"
    /\ got' = [got EXCEPT ![p] = [called |-> TRUE, conn |-> clientConnSingleton,
                                  err |-> NoErr]]
    /\ UNCHANGED <<clientConnSingleton, once, pc, args, clientConn, calls, callNo,
                   late, dials, panics, ignored, configVars>>

ClientNext ==
    \E p \in Callers :
        \/ Call(p)
        \/ Do(p)
        \/ DoSlow(p)
        \/ DialOK(p)
        \/ DialErr(p)
        \/ Assign(p)
        \/ Leave(p)
        \/ GenConn(p)

(***************************************************************************)
(* types/config.go: values                                                 *)
(***************************************************************************)
defaultGas == 200000
defaultFees == "4iris"
defaultTimeout == 5
defaultLevel == "info"
defaultMaxTxsBytes == 1073741824
defaultAlgo == "secp256k1"
\* defaultMode = Sync
defaultMode == "sync"
defaultPath == "$HOME/irishub-sdk-go/leveldb"
defaultTxSizeLimit == 1048576
BIP44Prefix == "44'/118'/"
PartialPath == "0'/0/0"
\* FullPath = BIP44Prefix + PartialPath
FullPath == "44'/118'/0'/0/0"

\* Private key generation algorithm(sm2,secp256k1)
Algos == {"sm2", "secp256k1"}
\* the BroadcastMode values
Modes == {"sync", "async", "commit"}
\* log level(trace|debug|info|warn|error|fatal|panic)
Levels == {"trace", "debug", "info", "warn", "error", "fatal", "panic"}

\* float64 values: a finite value is held in tenths, NaN compares false with
\* everything
Float(tenths) == [nan |-> FALSE, val |-> tenths]
NaN == [nan |-> TRUE, val |-> 0]
FloatLeq(a, b) == ~a.nan /\ ~b.nan /\ a.val <= b.val
FloatGt(a, b) == ~a.nan /\ ~b.nan /\ a.val > b.val
\* defaultGasAdjustment = 1.0
defaultGasAdjustment == Float(10)

\* DecCoins: a nil slice, or a list of (Denom, Amount)
NilCoins == [isNil |-> TRUE, coins |-> <<>>]
Coins(list) == [isNil |-> FALSE, coins |-> list]
\* the canonical denominations; any other string is none
Denoms == {"atom", "iris"}
\* DecCoins.Empty
Empty(fee) == Len(fee.coins) = 0
\* DecCoins.IsValid: canonical denominations and positive amounts
IsValid(fee) ==
    \A i \in 1..Len(fee.coins) :
        /\ fee.coins[i].Denom \in Denoms
        /\ fee.coins[i].Amount > 0
\* ParseDecCoins, on the one string this file hands it
ParseDecCoins(str) ==
    IF str = defaultFees THEN Coins(<<[Denom |-> "iris", Amount |-> 4]>>)
    ELSE NilCoins

\* interface values: nil, or a handle
NilDAO == "nil"
\* what store.NewLevelDB(os.ExpandEnv(defaultPath), nil) returns
LevelDB == "leveldb:$HOME/irishub-sdk-go/leveldb"
NilTokenManager == "nil"
DefaultTokenManager == "DefaultTokenManager{}"
NilKeyManager == "nil"

\* AddrPrefixCfg
Prefixes(aa, va, ca, ap, vp, cp) ==
    [AccountAddr |-> aa, ValidatorAddr |-> va, ConsensusAddr |-> ca,
     AccountPub |-> ap, ValidatorPub |-> vp, ConsensusPub |-> cp]
\* the built-in address-prefix record PrefixCfg designates at start
DefaultPrefixCfg == Prefixes("iaa", "iva", "ica", "iap", "ivp", "icp")
\* records the exported package variable can be made to designate
PrefixCfgs == {DefaultPrefixCfg, Prefixes("caa", "cva", "cca", "cap", "cvp", "ccp")}

\* ClientConfig{}
ZeroConfig ==
    [NodeURI |-> "", GRPCAddr |-> "", ChainID |-> "", Gas |-> 0, Fee |-> NilCoins,
     KeyDAO |-> NilDAO, Algo |-> "", Mode |-> "", Timeout |-> 0, Level |-> "",
     MaxTxBytes |-> 0, GasAdjustment |-> Float(0), Cached |-> FALSE,
     TokenManager |-> NilTokenManager, KeyManager |-> NilKeyManager,
     TxSizeLimit |-> 0, Bech32AddressPrefix |-> Prefixes("", "", "", "", "", ""),
     BIP44Path |-> "", BSNProject |-> NoInfo]

(***************************************************************************)
(* types/config.go: the options.  An Option acts on the build in progress  *)
(* b = [cfg, opens, err]: the config being filled, the number of           *)
(* store.NewLevelDB calls made so far, and the error it returned.          *)
(***************************************************************************)
Ok(b, cfg) == [b EXCEPT !.cfg = cfg, !.err = NoErr]

\* the validity test left out: only a nil or empty fee is replaced
MutFeeOptionNoValidity(fee, b) ==
    LET f == IF fee.isNil \/ Empty(fee)
             THEN ParseDecCoins(defaultFees) ELSE fee
    IN  Ok(b, [b.cfg EXCEPT !.Fee = f])

FeeOption(fee, b) ==
    LET f == IF fee.isNil \/ Empty(fee) \/ ~IsValid(fee)
             THEN ParseDecCoins(defaultFees) ELSE fee
    IN  Ok(b, [b.cfg EXCEPT !.Fee = f])

\* the default store opened whatever dao is
MutKeyDAOOptionAlwaysOpens(dao, b) ==
    IF failAt = b.opens + 1
    THEN [b EXCEPT !.opens = @ + 1, !.err = "leveldb: cannot open"]
    ELSE [cfg |-> [b.cfg EXCEPT !.KeyDAO = LevelDB],
          opens |-> b.opens + 1, err |-> NoErr]

\* the default store cannot be opened while an earlier build holds it
MutKeyDAOOptionStoreHeld(dao, b) ==
    IF dao = NilDAO
    THEN IF failAt = b.opens + 1 \/ result.opens > 0
         THEN [b EXCEPT !.opens = @ + 1, !.err = "leveldb: cannot open"]
         ELSE [cfg |-> [b.cfg EXCEPT !.KeyDAO = LevelDB],
               opens |-> b.opens + 1, err |-> NoErr]
    ELSE Ok(b, [b.cfg EXCEPT !.KeyDAO = dao])

\* store.NewLevelDB fails on the call the environment picked
KeyDAOOption(dao, b) ==
    IF dao = NilDAO
    THEN IF failAt = b.opens + 1
         THEN [b EXCEPT !.opens = @ + 1, !.err = "leveldb: cannot open"]
         ELSE [cfg |-> [b.cfg EXCEPT !.KeyDAO = LevelDB],
               opens |-> b.opens + 1, err |-> NoErr]
    ELSE Ok(b, [b.cfg EXCEPT !.KeyDAO = dao])

\* gas < 0 tested instead of gas <= 0: never true of a uint64
MutGasOptionNoDefault(gas, b) ==
    Ok(b, [b.cfg EXCEPT !.Gas = IF gas < 0 THEN defaultGas ELSE gas])

GasOption(gas, b) ==
    Ok(b, [b.cfg EXCEPT !.Gas = IF gas <= 0 THEN defaultGas ELSE gas])

\* an empty algorithm reported instead of defaulted
MutAlgoOptionRejectsEmpty(algo, b) ==
    IF algo = "" THEN [b EXCEPT !.err = "algo is required"]
    ELSE Ok(b, [b.cfg EXCEPT !.Algo = algo])

AlgoOption(algo, b) ==
    Ok(b, [b.cfg EXCEPT !.Algo = IF algo = "" THEN defaultAlgo ELSE algo])

ModeOption(mode, b) ==
    Ok(b, [b.cfg EXCEPT !.Mode = IF mode = "" THEN defaultMode ELSE mode])

TimeoutOption(timeout, b) ==
    Ok(b, [b.cfg EXCEPT !.Timeout = IF timeout <= 0 THEN defaultTimeout ELSE timeout])

LevelOption(level, b) ==
    Ok(b, [b.cfg EXCEPT !.Level = IF level = "" THEN defaultLevel ELSE level])

MaxTxBytesOption(maxTxBytes, b) ==
    Ok(b, [b.cfg EXCEPT !.MaxTxBytes =
              IF maxTxBytes <= 0 THEN defaultMaxTxsBytes ELSE maxTxBytes])

GasAdjustmentOption(gasAdjustment, b) ==
    Ok(b, [b.cfg EXCEPT !.GasAdjustment =
              IF FloatLeq(gasAdjustment, Float(0)) THEN defaultGasAdjustment
              ELSE gasAdjustment])

CachedOption(enabled, b) ==
    Ok(b, [b.cfg EXCEPT !.Cached = enabled])

TokenManagerOption(tokenManager, b) ==
    Ok(b, [b.cfg EXCEPT !.TokenManager =
              IF tokenManager = NilTokenManager THEN DefaultTokenManager
              ELSE tokenManager])

TxSizeLimitOption(txSizeLimit, b) ==
    Ok(b, [b.cfg EXCEPT !.TxSizeLimit =
              IF txSizeLimit <= 0 THEN defaultTxSizeLimit ELSE txSizeLimit])

KeyManagerOption(keyManager, b) ==
    Ok(b, [b.cfg EXCEPT !.KeyManager = keyManager])

\* the pubkey triple not tested
MutBech32OnlyAddrChecked(bech32AddressPrefix, b) ==
    LET p1 == IF \/ bech32AddressPrefix.AccountAddr = ""
                 \/ bech32AddressPrefix.ValidatorAddr = ""
                 \/ bech32AddressPrefix.ConsensusAddr = ""
              THEN PrefixCfg ELSE bech32AddressPrefix
    IN  Ok(b, [b.cfg EXCEPT !.Bech32AddressPrefix = p1])

Bech32AddressPrefixOption(bech32AddressPrefix, b) ==
    LET p1 == IF \/ bech32AddressPrefix.AccountAddr = ""
                 \/ bech32AddressPrefix.ValidatorAddr = ""
                 \/ bech32AddressPrefix.ConsensusAddr = ""
              THEN PrefixCfg ELSE bech32AddressPrefix
        p2 == IF p1.AccountPub = "" \/ p1.ValidatorPub = "" \/ p1.ConsensusPub = ""
              THEN PrefixCfg ELSE p1
    IN  Ok(b, [b.cfg EXCEPT !.Bech32AddressPrefix = p2])

BIP44PathOption(bIP44Path, b) ==
    Ok(b, [b.cfg EXCEPT !.BIP44Path = IF bIP44Path = "" THEN FullPath ELSE bIP44Path])

\* an empty project key defaulted like the other fields' empty values
MutBSNOptionDefaultsKey(info, b) ==
    Ok(b, [b.cfg EXCEPT !.BSNProject =
              [ProjectId           |-> info.ProjectId,
               ProjectKey          |-> IF info.ProjectKey = "" THEN "default"
                                       ELSE info.ProjectKey,
               ChainAccountAddress |-> info.ChainAccountAddress]])

BSNProjectInfoOption(info, b) ==
    Ok(b, [b.cfg EXCEPT !.BSNProject =
              [ProjectId           |-> info.ProjectId,
               ProjectKey          |-> info.ProjectKey,
               ChainAccountAddress |-> info.ChainAccountAddress]])

\* an Option value of the caller's list is the constructor it came from and
\* the argument that constructor was given; calling it is calling the closure
Opt(kind, v) == [kind |-> kind, v |-> v]

CallOption(o, b) ==
    CASE o.kind = "Fee"           -> FeeOption(o.v, b)
      [] o.kind = "KeyDAO"        -> KeyDAOOption(o.v, b)
      [] o.kind = "Gas"           -> GasOption(o.v, b)
      [] o.kind = "Algo"          -> AlgoOption(o.v, b)
      [] o.kind = "Mode"          -> ModeOption(o.v, b)
      [] o.kind = "Timeout"       -> TimeoutOption(o.v, b)
      [] o.kind = "Level"         -> LevelOption(o.v, b)
      [] o.kind = "MaxTxBytes"    -> MaxTxBytesOption(o.v, b)
      [] o.kind = "GasAdjustment" -> GasAdjustmentOption(o.v, b)
      [] o.kind = "Cached"        -> CachedOption(o.v, b)
      [] o.kind = "TokenManager"  -> TokenManagerOption(o.v, b)
      [] o.kind = "TxSizeLimit"   -> TxSizeLimitOption(o.v, b)
      [] o.kind = "KeyManager"    -> KeyManagerOption(o.v, b)
      [] o.kind = "Bech32"        -> Bech32AddressPrefixOption(o.v, b)
      [] o.kind = "BIP44"         -> BIP44PathOption(o.v, b)
      [] o.kind = "BSN"           -> BSNProjectInfoOption(o.v, b)

(***************************************************************************)
(* types/config.go: checkAndSetDefault and NewClientConfig                 *)
(***************************************************************************)
\* the i-th statement of checkAndSetDefault after the two required-field
\* tests: the field's own option, called on the field's present value
DefaultStep(i, b) ==
    CASE i = 1  -> GasOption(b.cfg.Gas, b)
      [] i = 2  -> FeeOption(b.cfg.Fee, b)
      [] i = 3  -> AlgoOption(b.cfg.Algo, b)
      [] i = 4  -> KeyDAOOption(b.cfg.KeyDAO, b)
      [] i = 5  -> ModeOption(b.cfg.Mode, b)
      [] i = 6  -> TimeoutOption(b.cfg.Timeout, b)
      [] i = 7  -> LevelOption(b.cfg.Level, b)
      [] i = 8  -> MaxTxBytesOption(b.cfg.MaxTxBytes, b)
      [] i = 9  -> TokenManagerOption(b.cfg.TokenManager, b)
      [] i = 10 -> TxSizeLimitOption(b.cfg.TxSizeLimit, b)
      [] i = 11 -> Bech32AddressPrefixOption(b.cfg.Bech32AddressPrefix, b)
      [] i = 12 -> BIP44PathOption(b.cfg.BIP44Path, b)
      [] i = 13 -> BSNProjectInfoOption(b.cfg.BSNProject, b)
      [] i = 14 -> GasAdjustmentOption(b.cfg.GasAdjustment, b)

\* statement i of checkAndSetDefault and those after it; an error returns at
\* once
RECURSIVE DefaultFrom(_, _)
DefaultFrom(i, b) ==
    IF i > 14 THEN b
    ELSE LET b1 == DefaultStep(i, b)
         IN  IF b1.err # NoErr THEN b1 ELSE DefaultFrom(i + 1, b1)

checkAndSetDefault(b) ==
    IF Len(b.cfg.NodeURI) = 0 THEN [b EXCEPT !.err = "nodeURI is required"]
    ELSE IF Len(b.cfg.ChainID) = 0 THEN [b EXCEPT !.err = "chainID is required"]
    ELSE DefaultFrom(1, b)

\* the list walked from its end
RECURSIVE MutApplyOptionsReversed(_, _, _)
MutApplyOptionsReversed(opts, i, b) ==
    IF i > Len(opts) THEN b
    ELSE LET b1 == CallOption(opts[Len(opts) + 1 - i], b)
         IN  IF b1.err # NoErr THEN b1
             ELSE MutApplyOptionsReversed(opts, i + 1, b1)

\* for _, optionFn := range options: the first error ends the loop
RECURSIVE ApplyOptions(_, _, _)
ApplyOptions(opts, i, b) ==
    IF i > Len(opts) THEN b
    ELSE LET b1 == CallOption(opts[i], b)
         IN  IF b1.err # NoErr THEN b1 ELSE ApplyOptions(opts, i + 1, b1)

\* the config built so far returned next to the error
MutFailKeepsConfig(b) == b

\* return ClientConfig{}, err
Fail(b) == [cfg |-> ZeroConfig, opens |-> b.opens, err |-> b.err]

NewClientConfig(u, g, c, opts) ==
    LET b0 == [cfg |-> [ZeroConfig EXCEPT !.NodeURI = u, !.ChainID = c,
                                          !.GRPCAddr = g],
               opens |-> 0, err |-> NoErr]
        b1 == ApplyOptions(opts, 1, b0)
    IN  IF b1.err # NoErr THEN Fail(b1)
        ELSE LET b2 == checkAndSetDefault(b1)
             IN  IF b2.err # NoErr THEN Fail(b2) ELSE b2

(***************************************************************************)
(* Callers of NewClientConfig: the arguments tried                         *)
(***************************************************************************)
NodeURIs == {"", "http://node:26657"}
GRPCAddrs == {"", "node:9090"}
ChainIDs == {"", "chain-1"}

SomeFees ==
    { NilCoins,
      Coins(<<>>),
      Coins(<<[Denom |-> "iris", Amount |-> 0]>>),
      Coins(<<[Denom |-> "IRIS!", Amount |-> 2]>>),
      Coins(<<[Denom |-> "atom", Amount |-> 3], [Denom |-> "iris", Amount |-> 2]>>) }

SomeGasAdjustments == {NaN, Float(-5), Float(0), Float(15)}

SomePrefixes ==
    { Prefixes("caa", "cva", "cca", "", "", ""),
      Prefixes("", "", "", "cap", "cvp", "ccp"),
      Prefixes("caa", "cva", "cca", "cap", "", "ccp"),
      Prefixes("caa", "cva", "cca", "cap", "cvp", "ccp") }

SomeInfos ==
    { [ProjectId |-> "pid1", ProjectKey |-> "", ChainAccountAddress |-> "addr1"],
      [ProjectId |-> "pid2", ProjectKey |-> "key2", ChainAccountAddress |-> "addr2"] }

OptionsOf(kind, values) == {Opt(kind, v) : v \in values}

\* the built-in options a caller may put in the list
Options ==
    OptionsOf("Gas", {0, 7})
    \cup OptionsOf("Fee", SomeFees)
    \cup OptionsOf("Algo", {"", "sm2", "ed25519"})
    \cup OptionsOf("KeyDAO", {NilDAO, "callerDAO"})
    \cup OptionsOf("Mode", {"", "async", "later"})
    \cup OptionsOf("Timeout", {0, 9})
    \cup OptionsOf("Level", {"", "debug", "verbose"})
    \cup OptionsOf("MaxTxBytes", {0, 64})
    \cup OptionsOf("GasAdjustment", SomeGasAdjustments)
    \cup OptionsOf("Cached", {TRUE, FALSE})
    \cup OptionsOf("TokenManager", {NilTokenManager, "callerTokenManager"})
    \cup OptionsOf("TxSizeLimit", {0, 32})
    \cup OptionsOf("KeyManager", {"callerKeyManager"})
    \cup OptionsOf("Bech32", SomePrefixes)
    \cup OptionsOf("BIP44", {"", "44'/60'/0'/0/0"})
    \cup OptionsOf("BSN", SomeInfos)

OptionLists == UNION {[1..n -> Options] : n \in 0..MaxOpts}

\* the store.NewLevelDB call that fails, 0 for none
FailAts == {0, 1, 2}

NoResult == [cfg |-> ZeroConfig, opens |-> 0, err |-> NoErr]

ConfigIdle ==
    /\ uri = ""
    /\ grpcAddr = ""
    /\ chainID = ""
    /\ options = <<>>
    /\ failAt = 0
    /\ PrefixCfg = DefaultPrefixCfg
    /\ phase = "input"
    /\ result = NoResult
    /\ builtWith = DefaultPrefixCfg
    /\ rebuilt = NoResult
    /\ rechecked = NoResult

\* no NewClientConfig call yet; the environment has fixed which opening of the
\* default store fails
ConfigInit ==
    /\ uri = ""
    /\ grpcAddr = ""
    /\ chainID = ""
    /\ options = <<>>
    /\ failAt \in FailAts
    /\ PrefixCfg = DefaultPrefixCfg
    /\ phase = "input"
    /\ result = NoResult
    /\ builtWith = DefaultPrefixCfg
    /\ rebuilt = NoResult
    /\ rechecked = NoResult

\* cfg, err := NewClientConfig(uri, grpcAddr, chainID, options...), the option
\* list taken from lists
BuildWith(lists) ==
    /\ phase = "input"
    /\ \E u \in NodeURIs, g \in GRPCAddrs, c \in ChainIDs, opts \in lists :
          /\ uri' = u
          /\ grpcAddr' = g
          /\ chainID' = c
          /\ options' = opts
          /\ result' = NewClientConfig(u, g, c, opts)
    /\ builtWith' = PrefixCfg
    /\ phase' = "built"
    /\ UNCHANGED <<failAt, PrefixCfg, rebuilt, rechecked>>
    /\ UNCHANGED clientVars

Build == BuildWith(OptionLists)

ConfigNext == Build

(***************************************************************************)
(* A build followed by a second build on the same arguments, or by another *)
(* defaulting pass on the config it returned                               *)
(***************************************************************************)
ShortOptionLists == UNION {[1..n -> Options] : n \in 0..MaxOptsRepeat}

\* as ConfigInit, with PrefixCfg designating any of its records
RepeatInit ==
    /\ uri = ""
    /\ grpcAddr = ""
    /\ chainID = ""
    /\ options = <<>>
    /\ failAt \in FailAts
    /\ PrefixCfg \in PrefixCfgs
    /\ phase = "input"
    /\ result = NoResult
    /\ builtWith = PrefixCfg
    /\ rebuilt = NoResult
    /\ rechecked = NoResult

BuildShort == BuildWith(ShortOptionLists)

\* some code of the process assigns the exported PrefixCfg
SetPrefixCfg ==
    /\ phase = "built"
    /\ \E v \in PrefixCfgs \ {PrefixCfg} : PrefixCfg' = v
    /\ UNCHANGED <<uri, grpcAddr, chainID, options, failAt, phase, result,
                   builtWith, rebuilt, rechecked>>
    /\ UNCHANGED clientVars

\* NewClientConfig called again with the same arguments, the default store
\* opening as it did for the first call
Rebuild ==
    /\ phase = "built"
    /\ rebuilt' = NewClientConfig(uri, grpcAddr, chainID, options)
    /\ phase' = "rebuilt"
    /\ UNCHANGED <<uri, grpcAddr, chainID, options, failAt, PrefixCfg, result,
                   builtWith, rechecked>>
    /\ UNCHANGED clientVars

\* cfg.checkAndSetDefault() on the config a successful build returned
Recheck ==
    /\ phase = "built"
    /\ result.err = NoErr
    /\ rechecked' = checkAndSetDefault([cfg |-> result.cfg, opens |-> result.opens,
                                        err |-> NoErr])
    /\ phase' = "rechecked"
    /\ UNCHANGED <<uri, grpcAddr, chainID, options, failAt, PrefixCfg, result,
                   builtWith, rebuilt>>
    /\ UNCHANGED clientVars

RepeatNext ==
    \/ BuildShort
    \/ SetPrefixCfg
    \/ Rebuild
    \/ Recheck

(***************************************************************************)
(* Specifications                                                          *)
(***************************************************************************)
\* goroutines calling NewGRPCClient and GenConn
InitClient == ClientInit /\ ConfigIdle

SpecClient == InitClient /\ [][ClientNext]_vars

\* one NewClientConfig call, on any argument list
InitConfig == ConfigInit /\ ClientInit

\* the Go scheduler runs every goroutine that can take a step, sync.Mutex
\* hands the lock to a waiter once it is free, and grpc.Dial returns; nothing
\* obliges anybody to call NewGRPCClient or GenConn
ClientStep(p) ==
    \/ Do(p)
    \/ DoSlow(p)
    \/ DialOK(p)
    \/ DialErr(p)
    \/ Assign(p)
    \/ Leave(p)

SpecClientFair ==
    /\ InitClient
    /\ [][ClientNext]_vars
    /\ \A p \in Callers : WF_vars(ClientStep(p))

SpecConfig == InitConfig /\ [][ConfigNext]_vars

\* one NewClientConfig call, then the same call again or the defaulting pass
\* again, the process assigning PrefixCfg in between or not
InitRepeat == RepeatInit /\ ClientInit

SpecRepeat == InitRepeat /\ [][RepeatNext]_vars

(***************************************************************************)
(* Claims about client/grpc_client.go, checked under SpecClient            *)
(***************************************************************************)
\* the connection the n-th dial made
ConnOf(n) ==
    [id |-> n, target |-> dials[n].url, creds |-> NewToken(dials[n].info)]

\* a NewGRPCClient call has run to its end (returned a client or panicked)
SomeCallOver == \E p \in Callers : pc[p] \in {"returned", "panicked"}

\* C1: however many NewGRPCClient calls are issued, concurrently or one after
\* another, with whatever endpoints and identities, grpc.Dial is executed at
\* most once, exactly once as soon as any call is over, and every GenConn on a
\* returned client yields one and the same handle: the singleton, which is the
\* connection of that one dial when it succeeded.
C1_OneDialOneHandle ==
    /\ Len(dials) <= 1
    /\ SomeCallOver => Len(dials) = 1
    /\ \A p \in Callers :
          got[p].called =>
              /\ Len(dials) = 1
              /\ got[p].conn = clientConnSingleton
              /\ got[p].conn = IF dials[1].ok THEN ConnOf(1) ELSE NilConn
    /\ \A p, q \in Callers :
          got[p].called /\ got[q].called => got[p].conn = got[q].conn

\* every goroutine holds the handle of the one dial, after all the calls of
\* the process were issued with both endpoints and both identities
C1_Witness ==
    /\ calls = MaxCalls
    /\ ignored = {"url", "info"}
    /\ Len(dials) = 1
    /\ \A p \in Callers : got[p].called /\ got[p].conn = ConnOf(1)

\* C2: whenever the shared connection exists, its credential provider returns
\* a map with exactly the keys projectId, projectKey, chainAccountAddress,
\* holding the identity of the call that dialed, whatever identities later
\* calls passed.
C2_CredentialsOfFirstCall ==
    clientConnSingleton # NilConn =>
        LET md == GetRequestMetadata(clientConnSingleton.creds)
        IN  /\ DOMAIN md = {"projectId", "projectKey", "chainAccountAddress"}
            /\ md["projectId"] = dials[1].info.ProjectId
            /\ md["projectKey"] = dials[1].info.ProjectKey
            /\ md["chainAccountAddress"] = dials[1].info.ChainAccountAddress

\* the connection exists and a later call that passed another identity has
\* returned
C2_Witness ==
    /\ clientConnSingleton # NilConn
    /\ "info" \in ignored
    /\ \E p \in Callers : got[p].called /\ got[p].conn = clientConnSingleton

\* C5 as stated: once the dial has failed no call dials again, the handle
\* stays unset, and every call issued after the failure errors instead of
\* yielding a handle: it neither returns a client nor gets a nil error from
\* GenConn.
C5_LaterCallsError ==
    DialFailed =>
        /\ Len(dials) = 1
        /\ clientConnSingleton = NilConn
        /\ \A p \in Callers :
              late[p] => /\ pc[p] # "returned"
                         /\ got[p].called => got[p].err # NoErr

\* C6: a failed dial is raised as a panic in the very call that executed the
\* dial and in no other, nothing dials again, and the shared handle stays
\* unset; without a failed dial nobody panics.
C6_FailureSurfacedToDialer ==
    IF DialFailed
    THEN /\ Len(dials) = 1
         /\ panics = <<[to |-> dials[1].by, call |-> dials[1].call]>>
         /\ clientConnSingleton = NilConn
         /\ \A p \in Callers :
               /\ pc[p] \notin {"dial", "assign", "leave"}
               /\ callNo[p] # dials[1].call
    ELSE /\ panics = <<>>
         /\ \A p \in Callers : pc[p] # "panicked"

\* the dial has failed in one goroutine while the other was inside
\* NewGRPCClient, and that other call is over too
C6_Witness ==
    /\ DialFailed
    /\ \E p, q \in Callers :
          /\ pc[p] = "panicked"
          /\ dials[1].by = p
          /\ pc[q] = "returned"
          /\ ~late[q]

(***************************************************************************)
(* Claims about types/config.go, checked under SpecConfig                  *)
(***************************************************************************)
Built == phase = "built"
BuiltOK == Built /\ result.err = NoErr
Required == uri # "" /\ chainID # ""

HasOption(kind) == \E i \in 1..Len(options) : options[i].kind = kind

\* the argument of the last option of that kind in the list, `none` without one
LastValue(kind, none) ==
    IF HasOption(kind)
    THEN LET i == CHOOSE i \in 1..Len(options) :
                     /\ options[i].kind = kind
                     /\ \A j \in (i + 1)..Len(options) : options[j].kind # kind
         IN  options[i].v
    ELSE none

Complete(prefixes) ==
    /\ prefixes.AccountAddr # "" /\ prefixes.ValidatorAddr # ""
    /\ prefixes.ConsensusAddr # ""
    /\ prefixes.AccountPub # "" /\ prefixes.ValidatorPub # ""
    /\ prefixes.ConsensusPub # ""

\* C3 as stated: a build with node endpoint and chain id returns a config whose
\* defaulted fields are all valid: Gas, Timeout, MaxTxBytes, TxSizeLimit and
\* GasAdjustment positive; Algo, Mode, Level, BIP44Path non-empty; Fee
\* non-empty and valid; KeyDAO and TokenManager set; the six prefixes non-empty.
C3_DefaultedFieldsValid ==
    BuiltOK /\ Required =>
        LET cfg == result.cfg
        IN  /\ cfg.Gas > 0
            /\ cfg.Timeout > 0
            /\ cfg.MaxTxBytes > 0
            /\ cfg.TxSizeLimit > 0
            /\ FloatGt(cfg.GasAdjustment, Float(0))
            /\ cfg.Algo # "" /\ cfg.Mode # "" /\ cfg.Level # ""
            /\ cfg.BIP44Path # ""
            /\ ~cfg.Fee.isNil /\ ~Empty(cfg.Fee) /\ IsValid(cfg.Fee)
            /\ cfg.KeyDAO # NilDAO
            /\ cfg.TokenManager # NilTokenManager
            /\ Complete(cfg.Bech32AddressPrefix)

\* C4: a build with an empty node endpoint or an empty chain id returns an
\* error together with the zero config, whatever the options were.
C4_MissingRequiredField ==
    Built /\ ~Required => result.err # NoErr /\ result.cfg = ZeroConfig

\* two options were applied before the missing node endpoint was noticed
C4_Witness ==
    /\ Built
    /\ uri = "" /\ chainID # ""
    /\ Len(options) = 2
    /\ result.err = "nodeURI is required"
    /\ result.cfg = ZeroConfig

\* C7: the built address-prefix record is the record last supplied when all six
\* of its fields are non-empty, and the built-in record in all six fields
\* otherwise, also when only the pubkey triple is missing.
C7_PrefixesAllOrNothing ==
    BuiltOK =>
        LET supplied == LastValue("Bech32", ZeroConfig.Bech32AddressPrefix)
        IN  result.cfg.Bech32AddressPrefix =
                IF Complete(supplied) THEN supplied ELSE PrefixCfg

\* the record supplied had its address triple and no pubkey prefix
C7_Witness ==
    /\ BuiltOK
    /\ HasOption("Bech32")
    /\ LET supplied == LastValue("Bech32", ZeroConfig.Bech32AddressPrefix)
       IN  /\ supplied.AccountAddr # "" /\ supplied.ValidatorAddr # ""
           /\ supplied.ConsensusAddr # ""
           /\ supplied.AccountPub = "" /\ supplied.ValidatorPub = ""
           /\ supplied.ConsensusPub = ""
    /\ result.cfg.Bech32AddressPrefix = PrefixCfg

\* C8: gas, timeout, max-tx-bytes, tx-size-limit and gas-adjustment of a
\* successful build are the value N of the last option for the field when N is
\* positive, and the field's constant default when that value is non-positive
\* or the list has no option for the field.
C8_NumericDefaults ==
    BuiltOK =>
        LET cfg == result.cfg
            gas == LastValue("Gas", 0)
            timeout == LastValue("Timeout", 0)
            maxTxBytes == LastValue("MaxTxBytes", 0)
            txSizeLimit == LastValue("TxSizeLimit", 0)
            gasAdjustment == LastValue("GasAdjustment", Float(0))
        IN  /\ gas > 0 => cfg.Gas = gas
            /\ gas <= 0 => cfg.Gas = 200000
            /\ timeout > 0 => cfg.Timeout = timeout
            /\ timeout <= 0 => cfg.Timeout = 5
            /\ maxTxBytes > 0 => cfg.MaxTxBytes = maxTxBytes
            /\ maxTxBytes <= 0 => cfg.MaxTxBytes = 1073741824
            /\ txSizeLimit > 0 => cfg.TxSizeLimit = txSizeLimit
            /\ txSizeLimit <= 0 => cfg.TxSizeLimit = 1048576
            /\ FloatGt(gasAdjustment, Float(0)) => cfg.GasAdjustment = gasAdjustment
            /\ FloatLeq(gasAdjustment, Float(0)) => cfg.GasAdjustment = Float(10)

\* a positive gas after a zero gas, and no timeout option at all
C8_Witness ==
    /\ BuiltOK
    /\ options = <<Opt("Gas", 0), Opt("Gas", 7)>>
    /\ result.cfg.Gas = 7
    /\ result.cfg.Timeout = 5

\* C9: the fee of a successful build is the parsed default fee, whole, when the
\* fee last supplied is absent (no option, or nil), empty or not valid, and the
\* supplied fee unchanged when it is non-empty and valid.
C9_FeeDefaultedWhole ==
    BuiltOK =>
        LET fee == LastValue("Fee", NilCoins)
        IN  result.cfg.Fee =
                IF fee.isNil \/ Len(fee.coins) = 0 \/ ~IsValid(fee)
                THEN Coins(<<[Denom |-> "iris", Amount |-> 4]>>)
                ELSE fee

\* a non-empty fee that is not valid was replaced
C9_Witness ==
    /\ BuiltOK
    /\ HasOption("Fee")
    /\ LET fee == LastValue("Fee", NilCoins)
       IN  ~fee.isNil /\ Len(fee.coins) > 0 /\ ~IsValid(fee)
    /\ result.cfg.Fee = Coins(<<[Denom |-> "iris", Amount |-> 4]>>)

\* the caller supplied a key store and never asked for the default one
CallerKeyStore ==
    /\ HasOption("KeyDAO")
    /\ \A i \in 1..Len(options) :
          options[i].kind = "KeyDAO" => options[i].v # NilDAO

C11_AllThreeNonEmpty ==
    BuiltOK => /\ result.cfg.NodeURI # ""
               /\ result.cfg.GRPCAddr # ""
               /\ result.cfg.ChainID # ""

\* C12 as stated: whatever AlgoOption, ModeOption and LevelOption were given,
\* a successful build has a supported algorithm, one of the three broadcast
\* modes and one of the enumerated log levels.
C12_EnumeratedValues ==
    BuiltOK => /\ result.cfg.Algo \in Algos
               /\ result.cfg.Mode \in Modes
               /\ result.cfg.Level \in Levels

\* C13: in a successful build the project identity is, field for field, the
\* identity last supplied (the empty triple without one, empty fields kept),
\* caching is the caller's boolean, the key manager is the caller's or unset,
\* and the three required values are the caller's.
C13_UndefaultedFieldsKept ==
    BuiltOK =>
        LET cfg == result.cfg
            info == LastValue("BSN", NoInfo)
        IN  /\ cfg.BSNProject.ProjectId = info.ProjectId
            /\ cfg.BSNProject.ProjectKey = info.ProjectKey
            /\ cfg.BSNProject.ChainAccountAddress = info.ChainAccountAddress
            /\ cfg.Cached = LastValue("Cached", FALSE)
            /\ cfg.KeyManager = LastValue("KeyManager", NilKeyManager)
            /\ cfg.NodeURI = uri
            /\ cfg.GRPCAddr = grpcAddr
            /\ cfg.ChainID = chainID

\* an identity with an empty project key, caching switched on, no key manager
C13_Witness ==
    /\ BuiltOK
    /\ options = <<Opt("BSN", [ProjectId |-> "pid1", ProjectKey |-> "",
                               ChainAccountAddress |-> "addr1"]),
                   Opt("Cached", TRUE)>>
    /\ result.cfg.BSNProject.ProjectKey = ""
    /\ result.cfg.Cached
    /\ result.cfg.KeyManager = NilKeyManager

\* the caller supplied a key store: some KeyDAO option carries one
SuppliedStore ==
    \E i \in 1..Len(options) : options[i].kind = "KeyDAO" /\ options[i].v # NilDAO

\* C15 as stated: the default store is opened only if the caller supplied no
\* key store, and then at most once in a build; a supplied store is kept
\* without opening the default one; a failed opening fails the build with the
\* zero config.
C15_DefaultStoreAtMostOnce ==
    Built =>
        /\ result.opens > 0 => ~SuppliedStore
        /\ result.opens <= 1
        /\ SuppliedStore /\ result.err = NoErr => result.cfg.KeyDAO # LevelDB
        /\ failAt \in 1..result.opens =>
              result.err # NoErr /\ result.cfg = ZeroConfig

\* C17: the options are applied in list order and the defaulting pass runs
\* after the last one: each field of a successful build is the normalization
\* of the value of the last option for the field, an explicit empty or zero
\* value ending as the default like a field never set.
C17_LastOptionThenDefaults ==
    BuiltOK =>
        LET cfg == result.cfg
            gas == LastValue("Gas", 0)
            algo == LastValue("Algo", "")
            mode == LastValue("Mode", "")
            timeout == LastValue("Timeout", 0)
            level == LastValue("Level", "")
            path == LastValue("BIP44", "")
            manager == LastValue("TokenManager", NilTokenManager)
        IN  /\ cfg.Gas = IF gas = 0 THEN defaultGas ELSE gas
            /\ cfg.Algo = IF algo = "" THEN defaultAlgo ELSE algo
            /\ cfg.Mode = IF mode = "" THEN defaultMode ELSE mode
            /\ cfg.Timeout = IF timeout = 0 THEN defaultTimeout ELSE timeout
            /\ cfg.Level = IF level = "" THEN defaultLevel ELSE level
            /\ cfg.BIP44Path = IF path = "" THEN FullPath ELSE path
            /\ cfg.TokenManager = IF manager = NilTokenManager
                                  THEN DefaultTokenManager ELSE manager
            /\ cfg.Cached = LastValue("Cached", FALSE)

\* an algorithm first set and then overridden with the empty string
C17_Witness ==
    /\ BuiltOK
    /\ options = <<Opt("Algo", "sm2"), Opt("Algo", "")>>
    /\ result.cfg.Algo = defaultAlgo

\* a goroutine is executing the once body
InBody(p) == pc[p] \in {"dial", "assign", "leave"}

\* C16: no NewGRPCClient call has returned while the once body is running or
\* unstarted: a returned call finds the latch done and the body run once, a
\* goroutine inside the body holds the mutex with the latch not done, and a
\* call that finds the latch done returns without entering the body.  So after
\* a successful dial every GenConn on a returned client yields a set handle.
C16_ReturnOnlyAfterInit ==
    /\ [](\A p \in Callers :
            /\ InBody(p) => /\ ~once.done /\ once.m = p
                            /\ \A q \in Callers : pc[q] # "returned"
            /\ pc[p] = "returned" =>
                  /\ once.done /\ Len(dials) = 1
                  /\ dials[1].ok => clientConnSingleton = ConnOf(1)
            /\ got[p].called /\ dials[1].ok => got[p].conn # NilConn)
    /\ [][\A p \in Callers :
            once.done /\ pc[p] \in {"Do", "doSlow"} =>
                pc'[p] \in {pc[p], "returned"}]_vars

\* the body is past the dial and has not stored the handle yet while another
\* call, arrived after the body started, waits for the mutex
C16_Witness ==
    \E p, q \in Callers :
        /\ pc[p] = "assign"
        /\ once.m = p /\ ~once.done
        /\ pc[q] = "doSlow"
        /\ clientConnSingleton = NilConn

\* C18: every NewGRPCClient call of every goroutine comes to its end, as a
\* return or as the panic of the failed dial; nobody stays blocked on the
\* latch, whether the body succeeds or fails.
C18_EveryCallFinishes ==
    \A p \in Callers :
        pc[p] \in {"Do", "doSlow", "dial", "assign", "leave"}
            ~> pc[p] \in {"returned", "panicked"}

\* a call that was inside NewGRPCClient while the failing body ran has
\* returned, and its GenConn yielded the unset handle
C18_Witness ==
    /\ DialFailed
    /\ \E p, q \in Callers :
          /\ dials[1].by = p
          /\ pc[q] = "returned"
          /\ ~late[q]
          /\ got[q].called /\ got[q].conn = NilConn

\* C19: the shared connection is the one to the endpoint of the call that
\* dialed; calls with another endpoint dial nothing and raise nothing, and
\* GenConn on their client yields that connection with a nil error.
C19_BoundToFirstEndpoint ==
    clientConnSingleton # NilConn =>
        /\ Len(dials) = 1 /\ dials[1].ok
        /\ clientConnSingleton.target = dials[1].url
        /\ panics = <<>>
        /\ \A p \in Callers :
              /\ pc[p] # "panicked"
              /\ got[p].called => /\ got[p].conn.target = dials[1].url
                                  /\ got[p].err = NoErr

\* a call that passed the other endpoint has returned and every goroutine's
\* GenConn yields the connection to the first endpoint
C19_Witness ==
    /\ clientConnSingleton # NilConn
    /\ "url" \in ignored
    /\ \A p \in Callers :
          /\ pc[p] = "returned"
          /\ got[p].called /\ got[p].conn.target = dials[1].url

C20_DefaultingIdempotent ==
    phase = "rechecked" =>
        /\ rechecked.err = NoErr
        /\ rechecked.cfg = result.cfg
        /\ rechecked.opens = result.opens

\* the pass ran again on a config whose store and prefixes the first pass had
\* defaulted, after PrefixCfg was assigned another record
C20_Witness ==
    /\ phase = "rechecked"
    /\ options = <<>>
    /\ result.opens = 1
    /\ PrefixCfg # builtWith
    /\ rechecked.cfg.KeyDAO = LevelDB
    /\ rechecked.cfg.Bech32AddressPrefix = builtWith

====
